---- MODULE Spec2Model ----
(***************************************************************************)
(* The application core of the job offers platform: the Express handlers   *)
(* of routes/applications.js and routes/jobOffers.js, the Application      *)
(* model they call, the auth/requireRole middleware, and the MySQL tables  *)
(* applications and notifications.  Every handler is cut into steps at     *)
(* the awaits on the database where another request can interleave and     *)
(* change what the handler goes on to do.                                  *)
(***************************************************************************)
EXTENDS Integers, Sequences, FiniteSets, Bags, TLC

\* ---------------------------------------------------------------- bounds
\* application rows ever inserted (AUTO_INCREMENT ids 1..MaxApps)
MaxApps == 2
\* rows the notifications table can hold
MaxNotifs == 2
\* last value of CURRENT_TIMESTAMP
MaxClock == 1
\* requests in flight at the same time
MaxReqs == 2
\* longest applicationIds array of a bulk request
MaxBulk == 2
\* the calls of the web client that overlap
MaxCalls == 2

\* ------------------------------------------------------- rows kept fixed
\* users: 1, 2 job seekers; 3, 4 company users; 5 admin
UserIds == 1..5
user_type(u) ==
    IF u \in {1, 2} THEN "job_seeker" ELSE IF u \in {3, 4} THEN "company" ELSE "admin"

\* companies: company c belongs to user c + 2 (companies.user_id)
CompanyIds == {1, 2}
companies == [c \in CompanyIds |-> [id |-> c, userId |-> c + 2]]

\* job_offers: job j belongs to company j (job_offers.company_id)
JobIds == {1, 2}
job_offers == [j \in JobIds |-> [id |-> j, companyId |-> j]]

AppIds == 1..MaxApps

\* ------------------------------------------------------------ JavaScript
Undefined == "undefined"

\* obj.name : a property the object does not have reads as undefined
Field(obj, name) == IF name \in DOMAIN obj THEN obj[name] ELSE Undefined

Range(seq) == {seq[i] : i \in 1..Len(seq)}

\* !v for the values a client sends as a status
Falsy(v) == v \in {Undefined, ""}

\* ------------------------------------------------------------ middleware
\* new User(row): the object auth() puts in req.user
User(u) == [id |-> u, userType |-> user_type(u)]

auth(u) == User(u)

\* a requireRole that lets every user through
requireRoleOfAny(roles, reqUser) == TRUE

\* requireRole(roles): TRUE when the request goes on to the handler
requireRole(roles, reqUser) == reqUser.userType \in roles

\* ----------------------------------------------------- Application model
\* a list of statuses with one more
validStatusesAndArchived == {"pending", "reviewed", "interview", "accepted", "rejected", "archived"}

validStatuses == {"pending", "reviewed", "interview", "accepted", "rejected"}

Title == "Application Status Update"
MsgReviewed == "Your application has been reviewed"
MsgInterview == "You have been invited for an interview"
MsgAccepted == "Congratulations! Your application has been accepted"
MsgRejected == "Your application has been rejected"

statusMessages ==
    [reviewed |-> MsgReviewed, interview |-> MsgInterview,
     accepted |-> MsgAccepted, rejected |-> MsgRejected]

ErrAlreadyApplied == "You have already applied for this job"
ErrCreating == "Error creating application: Duplicate entry for key 'unique_application'"
ErrInvalidStatus == "Invalid status. Must be one of: pending, reviewed, interview, accepted, rejected"
ErrNotFound == "Application not found"
ErrJobNotFound == "Job offer not found"
ErrRole == "Access denied. Insufficient permissions"
ErrDenied == "Access denied"
ErrIds == "Application IDs are required"
OkCreated == "Application submitted successfully"
OkStatus == "Application status updated successfully"
OkBulk == "Applications updated successfully"
OkDeleted == "Application deleted successfully"
OkUpdated == "Application updated successfully"
ErrNoFields == "No valid fields to update"
ErrStatusRequired == "Status is required"
ErrUpdating == "Error updating application status: query failed"
ErrBulk == "Error bulk updating applications: query failed"
OkData == "data"

\* new Application(row) as far as the handlers read it; NoApp is null
NoApp == [id |-> 0, jobOfferId |-> 0, userId |-> 0]

VARIABLES
    applications,   \* table applications: id -> row
    nextId,         \* AUTO_INCREMENT of applications
    notifications,  \* table notifications, in id order
    clock,          \* CURRENT_TIMESTAMP
    req,            \* the requests in flight: a bag of handler states
    resp,           \* the response the step just taken sent, NoResp if none
    tokenSubject,       \* AuthService.tokenSubject.value, in the browser
    currentUserSubject, \* AuthService.currentUserSubject.value
    http                \* the client's calls, each at its place in the interceptor

vars == <<applications, nextId, notifications, clock, req, resp,
          tokenSubject, currentUserSubject, http>>

\* the state of the server, and that of the web client
serverVars == <<applications, nextId, notifications, clock, req, resp>>
clientVars == <<tokenSubject, currentUserSubject, http>>

\* ------------------------------------------------- the web client
\* null, the tokens the server issues, the user it logs in
Null == "null"
Tokens == {"t1", "t2"}
TheUser == "user"

\* the calls the client has under way at a time
Calls == 1..MaxCalls

\* a call through HttpClient: where it is in AuthInterceptor.intercept, its
\* url, the token intercept read when it began, how often the request was
\* handed to next.handle, how often refreshToken was called for it, and
\* the status its subscriber got
NoCall ==
    [stage |-> "idle", url |-> "none", token |-> Null, sends |-> 0, refreshes |-> 0,
     status |-> 0]

\* a handler's state: the request, the application it looked up, its place
\* in the loop of bulkUpdateStatus, and what it has written so far (sent:
\* the notifications it inserted, wrote: the rows its UPDATE matched)
NoReq ==
    [op |-> "none", actor |-> 0, job |-> 0, app |-> NoApp, status |-> "none",
     ids |-> << >>, idx |-> 0, sent |-> << >>, wrote |-> {}]

NoResp ==
    [op |-> "none", actor |-> 0, job |-> 0, app |-> NoApp, status |-> "none",
     ids |-> << >>, sent |-> << >>, wrote |-> {}, code |-> 0, message |-> "none",
     data |-> {}]

\* res.status(code).json({success, message, data}) for the request r; data
\* is the set of ids of the applications in the body
ReplyData(r, code, message, data) ==
    [op |-> r.op, actor |-> r.actor, job |-> r.job, app |-> r.app, status |-> r.status,
     ids |-> r.ids, sent |-> r.sent, wrote |-> r.wrote, code |-> code, message |-> message,
     data |-> data]

Reply(r, code, message) == ReplyData(r, code, message, {})

\* the JSON body of a response
Body(r) == [success |-> r.code < 400, message |-> r.message]

Starts(r) == /\ BagCardinality(req) < MaxReqs
             /\ req' = req (+) SetToBag({r})
Moves(r, r2) == req' = (req (-) SetToBag({r})) (+) SetToBag({r2})
Ends(r) == req' = req (-) SetToBag({r})
InFlight == BagToSet(req)

Application(id) ==
    [id |-> id, jobOfferId |-> applications[id].jobOfferId, userId |-> applications[id].userId]

\* SELECT * FROM applications WHERE id = ?
findById(id) == IF id \in DOMAIN applications THEN Application(id) ELSE NoApp

\* SELECT * FROM applications WHERE job_offer_id = ? AND user_id = ?
findByJobAndUser(jobOfferId, userId) ==
    {id \in DOMAIN applications :
        applications[id].jobOfferId = jobOfferId /\ applications[id].userId = userId}

\* a canUserApply that hands its arguments over in the order it got them
canUserApplySwapped(userId, jobOfferId) == findByJobAndUser(userId, jobOfferId) = {}

\* !(await Application.findByJobAndUser(jobOfferId, userId))
canUserApply(userId, jobOfferId) == findByJobAndUser(jobOfferId, userId) = {}

\* a table without the key: no row is rejected
NoUniqueKey(jobOfferId, userId) == FALSE

\* UNIQUE KEY unique_application (job_offer_id, user_id): TRUE when the key
\* rejects the row
unique_application(jobOfferId, userId) ==
    \E id \in DOMAIN applications :
        applications[id].jobOfferId = jobOfferId /\ applications[id].userId = userId

Init ==
    /\ applications = << >>
    /\ nextId = 1
    /\ notifications = << >>
    /\ clock = 0
    /\ req = EmptyBag
    /\ resp = NoResp
    /\ tokenSubject = Null
    /\ currentUserSubject = Null
    /\ http = [i \in Calls |-> NoCall]

\* time passes
Tick ==
    /\ clock < MaxClock
    /\ clock' = clock + 1
    /\ resp' = NoResp
    /\ UNCHANGED <<applications, nextId, notifications, req, clientVars>>

\* --------------------------------------------- POST /api/applications
\* the cover letter of a create request, and the one an update sends
Letter == "letter"
Edited == "edited"

\* the request bodies of a create that pass validateApplication; userId
\* and status are fields the client may add (userId 0: the body has none)
PayloadUserIds == UserIds \cup {0}
CreateBodies ==
    [jobOfferId : JobIds, coverLetter : {Letter}, userId : PayloadUserIds,
     status : {Undefined, "accepted"}]

\* the create bodies with nothing added
PlainBodies == {body \in CreateBodies : body.userId = 0 /\ body.status = Undefined}

\* an applicationData that keeps the userId of the body
applicationDataOfBody(body, reqUser) == body

\* { ...req.body, userId: req.user.id }
applicationData(body, reqUser) == [body EXCEPT !.userId = reqUser.id]

\* requireRole(['job_seeker']), then Application.create up to its
\* existence check
create_find(u, body) ==
    /\ LET r == [NoReq EXCEPT !.op = "create", !.actor = u]
           data == applicationData(body, auth(u))
           r2 == [r EXCEPT !.job = data.jobOfferId,
                           !.app = [NoApp EXCEPT !.jobOfferId = data.jobOfferId,
                                                 !.userId = data.userId]]
       IN  IF ~requireRole({"job_seeker"}, auth(u))
           THEN /\ resp' = Reply(r, 403, ErrRole)
                /\ UNCHANGED req
           ELSE IF findByJobAndUser(data.jobOfferId, data.userId) # {}
           THEN /\ resp' = Reply(r2, 400, ErrAlreadyApplied)
                /\ UNCHANGED req
           ELSE /\ Starts(r2)
                /\ resp' = NoResp
    /\ UNCHANGED <<applications, nextId, notifications, clock, clientVars>>

\* a create that also tells the applicant that the application arrived
createdWithNotice(r) ==
    << [user_id |-> r.app.userId, title |-> "Application received",
        message |-> "Your application has been submitted",
        notification_type |-> "application_status"] >>

\* the rows Application.create inserts into notifications: its one INSERT
\* is into applications
created(r) == << >>

\* Application.create from its INSERT on: the row gets the next id, the
\* job, user and cover letter of applicationData, the default status and
\* the current time, unless the unique key rejects it
create_insert(r) ==
    /\ r.op = "create"
    /\ IF unique_application(r.app.jobOfferId, r.app.userId)
       THEN /\ resp' = Reply(r, 400, ErrCreating)
            /\ UNCHANGED <<applications, nextId, notifications>>
       ELSE /\ nextId <= MaxApps
            /\ applications' =
                 [id \in DOMAIN applications \cup {nextId} |->
                    IF id = nextId
                    THEN [jobOfferId |-> r.app.jobOfferId, userId |-> r.app.userId,
                          coverLetter |-> Letter,
                          status |-> "pending", updatedAt |-> clock]
                    ELSE applications[id]]
            /\ nextId' = nextId + 1
            /\ notifications' = notifications \o created(r)
            /\ resp' = ReplyData([r EXCEPT !.app.id = nextId], 201, OkCreated, {nextId})
    /\ Ends(r)
    /\ UNCHANGED <<clock, clientVars>>

\* ------------------------------------ PUT /api/applications/:id/status
\* a notification addressed to the user who changed the status
createStatusNotificationToActor(app, status, updatedBy) ==
    IF status \notin DOMAIN statusMessages
    THEN << >>
    ELSE << [user_id |-> updatedBy, title |-> Title, message |-> statusMessages[status],
             notification_type |-> "application_status"] >>

\* the row createStatusNotification inserts, if any: none for a status
\* without a message
createStatusNotification(app, status, updatedBy) ==
    IF status \notin DOMAIN statusMessages
    THEN << >>
    ELSE << [user_id |-> app.userId, title |-> Title, message |-> statusMessages[status],
             notification_type |-> "application_status"] >>

\* what a query of a handler meets: no failure, a failure of the INSERT
\* into notifications, a failure of the SELECT of findById
Faults == {"none", "insert", "lookup"}

\* a createStatusNotification that lets the failure of its INSERT out
tryInsertRethrows(rows, fault) ==
    [rows |-> IF fault = "insert" THEN << >> ELSE rows, threw |-> fault = "insert" /\ rows # << >>]

\* try { INSERT INTO notifications } catch { console.error }: the rows
\* that reach the table, and whether an error leaves the method
tryInsert(rows, fault) ==
    [rows |-> IF fault = "insert" THEN << >> ELSE rows, threw |-> FALSE]

\* an UPDATE that writes a status only over one that comes before it in the
\* order pending, reviewed, interview, accepted or rejected
SetStatusForward(ids, status) ==
    LET rank(st) == CASE st = "pending" -> 0 [] st = "reviewed" -> 1
                      [] st = "interview" -> 2 [] OTHER -> 3
    IN  [id \in DOMAIN applications |->
            IF id \in ids /\ rank(applications[id].status) < rank(status)
            THEN [applications[id] EXCEPT !.status = status, !.updatedAt = clock]
            ELSE applications[id]]

\* an UPDATE that writes only the rows that are still pending
SetStatusOfPending(ids, status) ==
    [id \in DOMAIN applications |->
        IF id \in ids /\ applications[id].status = "pending"
        THEN [applications[id] EXCEPT !.status = status, !.updatedAt = clock]
        ELSE applications[id]]

\* UPDATE applications SET status = ?, updated_at = CURRENT_TIMESTAMP
\* WHERE id IN (ids)
SetStatus(ids, status) ==
    [id \in DOMAIN applications |->
        IF id \in ids
        THEN [applications[id] EXCEPT !.status = status, !.updatedAt = clock]
        ELSE applications[id]]

\* requireRole(['company', 'admin']), the check that the body has a
\* status, Application.findById, and the check updateStatus makes of the
\* status before it writes
updateStatus_find(u, id, status) ==
    /\ LET r == [NoReq EXCEPT !.op = "status", !.actor = u]
           r2 == [r EXCEPT !.app = [NoApp EXCEPT !.id = id]]
           r3 == [r EXCEPT !.status = status, !.app = findById(id)]
       IN  IF ~requireRole({"company", "admin"}, auth(u))
           THEN /\ resp' = Reply(r, 403, ErrRole)
                /\ UNCHANGED req
           ELSE IF Falsy(status)
           THEN /\ resp' = Reply([r EXCEPT !.status = status], 400, ErrStatusRequired)
                /\ UNCHANGED req
           ELSE IF findById(id) = NoApp
           THEN /\ resp' = Reply(r2, 404, ErrNotFound)
                /\ UNCHANGED req
           ELSE IF status \notin validStatuses
           THEN /\ resp' = Reply(r3, 400, ErrInvalidStatus)
                /\ UNCHANGED req
           ELSE /\ Starts(r3)
                /\ resp' = NoResp
    /\ UNCHANGED <<applications, nextId, notifications, clock, clientVars>>

\* updateStatus from its UPDATE on: the write by id, the notification (the
\* updatedBy argument is req.user.id, never falsy), the response; an error
\* that leaves createStatusNotification is rethrown and answered 400
updateStatus_write(r, fault) ==
    /\ r.op = "status"
    /\ LET rows == createStatusNotification(r.app, r.status, auth(r.actor).id)
           out == tryInsert(rows, fault)
           r2 == [r EXCEPT !.sent = out.rows, !.wrote = {r.app.id} \cap DOMAIN applications]
       IN  /\ Len(notifications) + Len(out.rows) <= MaxNotifs
           /\ applications' = SetStatus({r.app.id}, r.status)
           /\ notifications' = notifications \o out.rows
           /\ resp' = IF out.threw
                      THEN Reply(r2, 400, ErrUpdating)
                      ELSE ReplyData(r2, 200, OkStatus, {r.app.id})
    /\ Ends(r)
    /\ UNCHANGED <<nextId, clock, clientVars>>

\* ------------------------------------ PUT /api/applications/bulk/status
\* an update that goes through the ids in turn and gives up at the first
\* one without a row
BulkMatchedUntilMissing(applicationIds) ==
    {applicationIds[i] : i \in {k \in 1..Len(applicationIds) :
        \A m \in 1..k : applicationIds[m] \in DOMAIN applications}}

\* the rows the UPDATE ... WHERE id IN (...) of bulkUpdateStatus matches
BulkMatched(applicationIds) == Range(applicationIds) \cap DOMAIN applications

\* the handler and bulkUpdateStatus up to and including its UPDATE
bulkUpdateStatus_update(u, applicationIds, status) ==
    /\ LET r == [NoReq EXCEPT !.op = "bulk", !.actor = u]
           r2 == [r EXCEPT !.status = status, !.ids = applicationIds]
       IN  IF ~requireRole({"company", "admin"}, auth(u))
           THEN /\ resp' = Reply(r, 403, ErrRole)
                /\ UNCHANGED <<req, applications>>
           ELSE IF Len(applicationIds) = 0
           THEN /\ resp' = Reply(r, 400, ErrIds)
                /\ UNCHANGED <<req, applications>>
           ELSE IF Falsy(status)
           THEN /\ resp' = Reply(r2, 400, ErrStatusRequired)
                /\ UNCHANGED <<req, applications>>
           ELSE IF status \notin validStatuses
           THEN /\ resp' = Reply(r2, 400, ErrInvalidStatus)
                /\ UNCHANGED <<req, applications>>
           ELSE /\ applications' = SetStatus(BulkMatched(applicationIds), status)
                /\ Starts([r2 EXCEPT !.idx = 1, !.wrote = BulkMatched(applicationIds)])
                /\ resp' = NoResp
    /\ UNCHANGED <<nextId, notifications, clock, clientVars>>

\* one turn of the loop over applicationIds: findById, and for a row that
\* exists createStatusNotification; after the last turn the response.  An
\* error of findById, or one that leaves createStatusNotification, ends the
\* loop: bulkUpdateStatus rethrows it and the handler answers 400
bulkUpdateStatus_notify(r, fault) ==
    /\ r.op = "bulk"
    /\ LET app == findById(r.ids[r.idx])
           rows == IF app = NoApp \/ fault = "lookup" THEN << >>
                   ELSE createStatusNotification(app, r.status, auth(r.actor).id)
           out == tryInsert(rows, fault)
           r2 == [r EXCEPT !.sent = r.sent \o out.rows, !.idx = r.idx + 1]
       IN  /\ Len(notifications) + Len(out.rows) <= MaxNotifs
           /\ notifications' = notifications \o out.rows
           /\ IF fault = "lookup" \/ out.threw
              THEN /\ resp' = Reply(r2, 400, ErrBulk)
                   /\ Ends(r)
              ELSE IF r.idx = Len(r.ids)
              THEN /\ resp' = Reply(r2, 200, OkBulk)
                   /\ Ends(r)
              ELSE /\ Moves(r, r2)
                   /\ resp' = NoResp
    /\ UNCHANGED <<applications, nextId, clock, clientVars>>

\* ------------------------------------------ PUT /api/applications/:id
\* a check that takes every caller for the applicant
notOwnerOfNone(application, reqUser) == FALSE

\* application.userId !== req.user.id
notOwner(application, reqUser) == application.userId # reqUser.id

allowedFields == {"cover_letter", "resume_url"}

\* the bodies of an update: a new cover letter, a status, or both
UpdateBodies ==
    {[cover_letter |-> Edited], [status |-> "accepted"],
     [cover_letter |-> Edited, status |-> "accepted"]}

\* UPDATE applications SET <allowed fields of the body>,
\* updated_at = CURRENT_TIMESTAMP WHERE id = ?
SetFields(id, body) ==
    [applications EXCEPT ![id] =
        [@ EXCEPT !.coverLetter = IF "cover_letter" \in DOMAIN body
                                  THEN body.cover_letter ELSE @,
                  !.updatedAt = clock]]

\* the lookup, the owner check and Application.update, taken at the UPDATE
update(u, id, body) ==
    /\ LET r == [NoReq EXCEPT !.op = "update", !.actor = u]
           r2 == [r EXCEPT !.app = [NoApp EXCEPT !.id = id]]
           r3 == [r EXCEPT !.app = findById(id)]
       IN  IF ~requireRole({"job_seeker"}, auth(u))
           THEN /\ resp' = Reply(r, 403, ErrRole)
                /\ UNCHANGED applications
           ELSE IF findById(id) = NoApp
           THEN /\ resp' = Reply(r2, 404, ErrNotFound)
                /\ UNCHANGED applications
           ELSE IF notOwner(findById(id), auth(u))
           THEN /\ resp' = Reply(r3, 403, ErrDenied)
                /\ UNCHANGED applications
           ELSE IF DOMAIN body \cap allowedFields = {}
           THEN /\ resp' = Reply(r3, 400, ErrNoFields)
                /\ UNCHANGED applications
           ELSE /\ applications' = SetFields(id, body)
                /\ resp' = ReplyData(r3, 200, OkUpdated, {id})
    /\ UNCHANGED <<nextId, notifications, clock, req, clientVars>>

\* --------------------------------------- DELETE /api/applications/:id
\* the lookup, the owner check and the DELETE by id, taken at the DELETE
delete(u, id) ==
    /\ LET r == [NoReq EXCEPT !.op = "delete", !.actor = u]
           r2 == [r EXCEPT !.app = [NoApp EXCEPT !.id = id]]
           r3 == [r EXCEPT !.app = findById(id)]
       IN  IF ~requireRole({"job_seeker"}, auth(u))
           THEN /\ resp' = Reply(r, 403, ErrRole)
                /\ UNCHANGED applications
           ELSE IF findById(id) = NoApp
           THEN /\ resp' = Reply(r2, 404, ErrNotFound)
                /\ UNCHANGED applications
           ELSE IF notOwner(findById(id), auth(u))
           THEN /\ resp' = Reply(r3, 403, ErrDenied)
                /\ UNCHANGED applications
           ELSE /\ applications' = [i \in DOMAIN applications \ {id} |-> applications[i]]
                /\ resp' = Reply(r3, 200, OkDeleted)
    /\ UNCHANGED <<nextId, notifications, clock, req, clientVars>>

\* ------------------------------------------ GET /api/applications/:id
findByIdWithDetails(u, id) ==
    /\ LET r == [NoReq EXCEPT !.op = "read", !.actor = u, !.app = [NoApp EXCEPT !.id = id]]
           r2 == [r EXCEPT !.app = findById(id)]
       IN  IF findById(id) = NoApp
           THEN resp' = Reply(r, 404, ErrNotFound)
           ELSE IF Field(auth(u), "role") = "job_seeker" /\ findById(id).userId # auth(u).id
           THEN resp' = Reply(r2, 403, ErrDenied)
           ELSE resp' = ReplyData(r2, 200, OkData, {id})
    /\ UNCHANGED <<applications, nextId, notifications, clock, req, clientVars>>

\* ---------------------------------- GET /api/jobs/:id/applications
\* SELECT ... FROM applications a ... WHERE a.job_offer_id = ?
ApplicationsOfJob(jobOfferId) ==
    {id \in DOMAIN applications : applications[id].jobOfferId = jobOfferId}

getApplications(u, jobId) ==
    /\ LET r == [NoReq EXCEPT !.op = "getApplications", !.actor = u]
           r2 == [r EXCEPT !.job = jobId]
       IN  IF ~requireRole({"company", "admin"}, auth(u))
           THEN resp' = Reply(r, 403, ErrRole)
           ELSE IF jobId \notin DOMAIN job_offers
           THEN resp' = Reply(r2, 404, ErrJobNotFound)
           ELSE IF /\ Field(auth(u), "role") = "company"
                   /\ job_offers[jobId].companyId # Field(auth(u), "companyId")
           THEN resp' = Reply(r2, 403, ErrDenied)
           ELSE resp' = ReplyData(r2, 200, OkData, ApplicationsOfJob(jobId))
    /\ UNCHANGED <<applications, nextId, notifications, clock, req, clientVars>>

\* ------------------------------- GET /api/applications/job/:jobId
getByJobOffer(u, jobId) ==
    /\ LET r == [NoReq EXCEPT !.op = "getByJobOffer", !.actor = u]
           r2 == [r EXCEPT !.job = jobId]
       IN  IF ~requireRole({"company", "admin"}, auth(u))
           THEN resp' = Reply(r, 403, ErrRole)
           ELSE resp' = ReplyData(r2, 200, OkData, ApplicationsOfJob(jobId))
    /\ UNCHANGED <<applications, nextId, notifications, clock, req, clientVars>>

\* ---------------------------- GET /api/applications/check/:jobId
\* the data of the answer is { canApply }
check(u, jobId) ==
    /\ LET r == [NoReq EXCEPT !.op = "check", !.actor = u]
           r2 == [r EXCEPT !.job = jobId]
       IN  IF ~requireRole({"job_seeker"}, auth(u))
           THEN resp' = Reply(r, 403, ErrRole)
           ELSE resp' = ReplyData(r2, 200, OkData, {canUserApply(auth(u).id, jobId)})
    /\ UNCHANGED <<applications, nextId, notifications, clock, req, clientVars>>

\* ------------------------- the lists and the figures of a company
\* a companyId that the query string does not carry, or that names no
\* company in the path
NoCompany == 0

\* the companyId the handlers filter by: req.user.companyId for a user
\* whose role is 'company', else the one of the request
companyIdOf(reqUser, supplied) ==
    IF Field(reqUser, "role") = "company" THEN Field(reqUser, "companyId") ELSE supplied

\* ... JOIN job_offers jo ON a.job_offer_id = jo.id WHERE jo.company_id = ?
OfCompany(companyId) ==
    {id \in DOMAIN applications :
        job_offers[applications[id].jobOfferId].companyId = companyId}

\* if (companyId) { query += ' ... jo.company_id = ?' }: every row when
\* there is none
CompanyFilter(companyId) ==
    IF companyId = NoCompany THEN DOMAIN applications ELSE OfCompany(companyId)

\* GET /api/applications: Application.findAll, no other filter given and
\* the page holding every row
findAll(u, companyId) ==
    /\ LET r == [NoReq EXCEPT !.op = "findAll", !.actor = u]
       IN  IF ~requireRole({"admin", "company"}, auth(u))
           THEN resp' = Reply(r, 403, ErrRole)
           ELSE resp' = ReplyData(r, 200, OkData,
                                  CompanyFilter(companyIdOf(auth(u), companyId)))
    /\ UNCHANGED <<applications, nextId, notifications, clock, req, clientVars>>

\* GET /api/applications/company/:companyId
getByCompany(u, companyId) ==
    /\ LET r == [NoReq EXCEPT !.op = "getByCompany", !.actor = u]
       IN  IF ~requireRole({"company", "admin"}, auth(u))
           THEN resp' = Reply(r, 403, ErrRole)
           ELSE resp' = ReplyData(r, 200, OkData,
                                  OfCompany(companyIdOf(auth(u), companyId)))
    /\ UNCHANGED <<applications, nextId, notifications, clock, req, clientVars>>

\* GET /api/applications/statistics: of the figures, COUNT(*) as total
getStatistics(u, companyId) ==
    /\ LET r == [NoReq EXCEPT !.op = "getStatistics", !.actor = u]
       IN  IF ~requireRole({"company", "admin"}, auth(u))
           THEN resp' = Reply(r, 403, ErrRole)
           ELSE resp' = ReplyData(r, 200, OkData,
                  {Cardinality(CompanyFilter(companyIdOf(auth(u), companyId)))})
    /\ UNCHANGED <<applications, nextId, notifications, clock, req, clientVars>>

\* GET /api/applications/recent, the limit above the number of rows
getRecent(u, companyId) ==
    /\ LET r == [NoReq EXCEPT !.op = "getRecent", !.actor = u]
       IN  IF ~requireRole({"company", "admin"}, auth(u))
           THEN resp' = Reply(r, 403, ErrRole)
           ELSE resp' = ReplyData(r, 200, OkData,
                                  CompanyFilter(companyIdOf(auth(u), companyId)))
    /\ UNCHANGED <<applications, nextId, notifications, clock, req, clientVars>>

\* GET /api/applications/trends: total_applications of the one month all
\* the rows were applied in
getTrends(u, companyId) ==
    /\ LET r == [NoReq EXCEPT !.op = "getTrends", !.actor = u]
       IN  IF ~requireRole({"company", "admin"}, auth(u))
           THEN resp' = Reply(r, 403, ErrRole)
           ELSE resp' = ReplyData(r, 200, OkData,
                  {Cardinality(CompanyFilter(companyIdOf(auth(u), companyId)))})
    /\ UNCHANGED <<applications, nextId, notifications, clock, req, clientVars>>

\* ------------------------------------------- the router of applications
\* the routes in the order routes/applications.js registers them; a path
\* is the sequence of its segments after /api/applications
routes ==
    << [method |-> "POST", path |-> << >>, handler |-> "create"],
       [method |-> "GET", path |-> << >>, handler |-> "list"],
       [method |-> "GET", path |-> <<"my">>, handler |-> "my"],
       [method |-> "GET", path |-> <<"job", ":jobId">>, handler |-> "getByJobOffer"],
       [method |-> "GET", path |-> <<"company", ":companyId">>, handler |-> "getByCompany"],
       [method |-> "GET", path |-> <<"statistics">>, handler |-> "statistics"],
       [method |-> "GET", path |-> <<"recent">>, handler |-> "recent"],
       [method |-> "GET", path |-> <<"trends">>, handler |-> "trends"],
       [method |-> "GET", path |-> <<":id">>, handler |-> "read"],
       [method |-> "PUT", path |-> <<":id", "status">>, handler |-> "status"],
       [method |-> "PUT", path |-> <<":id">>, handler |-> "update"],
       [method |-> "PUT", path |-> <<"bulk", "status">>, handler |-> "bulk"],
       [method |-> "DELETE", path |-> <<":id">>, handler |-> "delete"],
       [method |-> "GET", path |-> <<"check", ":jobId">>, handler |-> "check"] >>

\* a segment of a route that stands for a parameter
IsParam(segment) == segment \in {":id", ":jobId", ":companyId"}

\* Express matches a route when the method is the route's and every segment
\* is the route's own or takes the place of a parameter
Matches(route, method, path) ==
    /\ route.method = method
    /\ Len(route.path) = Len(path)
    /\ \A i \in 1..Len(path) : IsParam(route.path[i]) \/ route.path[i] = path[i]

\* the handler of the first route that matches, in registration order
dispatch(method, path) ==
    LET hits == {i \in 1..Len(routes) : Matches(routes[i], method, path)}
    IN  IF hits = {} THEN "none"
        ELSE routes[CHOOSE i \in hits : \A j \in hits : i <= j].handler

\* the id a query gets from the segment of a path: MySQL compares a string
\* that is no number with the id column as 0, which no row has
ToId(segment) ==
    CASE segment = "1" -> 1 [] segment = "2" -> 2 [] segment = "3" -> 3 [] OTHER -> 0

\* PUT /api/applications/<segment>/status, handed to the handler the router
\* picks
put_status(u, segment, body) ==
    LET handler == dispatch("PUT", <<segment, "status">>)
    IN  IF handler = "bulk"
        THEN bulkUpdateStatus_update(u, body.applicationIds, body.status)
        ELSE /\ handler = "status"
             /\ updateStatus_find(u, ToId(segment), body.status)

\* ------------------------------- AuthService and AuthInterceptor
LoginUrl == "/api/users/login"
RefreshUrl == "/api/users/refresh-token"
ApplicationsUrl == "/api/applications"
Urls == {LoginUrl, RefreshUrl, ApplicationsUrl}

\* url.includes(part), for the urls above
includes(url, part) ==
    \/ url = LoginUrl /\ part = "/login"
    \/ url = RefreshUrl /\ part = "/refresh-token"

\* the statuses the server answers a call with
Statuses == {200, 401, 500}

getToken == tokenSubject
getCurrentUser == currentUserSubject

\* the session: the values of the two subjects
session == [token |-> tokenSubject, user |-> currentUserSubject]

setUserData(user, token) == [token |-> token, user |-> user]

\* a clearStorage that leaves the current user
clearStorageKeepsUser == [token |-> Null, user |-> currentUserSubject]

clearStorage == [token |-> Null, user |-> Null]

\* logout: clearStorage, then the router goes to /login
logout == clearStorage

\* login's map over a response: data is null when the body has none
loginMap(token) ==
    IF token # Null THEN setUserData(TheUser, token) ELSE session

\* refreshToken's pipe: its map over a response (token is null when the
\* body carries none) and its catchError
refreshToken(status, token) ==
    IF status # 200 THEN logout
    ELSE IF token # Null /\ getCurrentUser # Null
    THEN setUserData(getCurrentUser, token)
    ELSE session

\* intercept, up to the first next.handle: a login or refresh-token request
\* is handed on as it is, another one with the token of now
intercept(i, url) ==
    /\ http[i].stage = "idle"
    /\ http' = [http EXCEPT ![i] =
                  IF includes(url, "/login") \/ includes(url, "/refresh-token")
                  THEN [NoCall EXCEPT !.stage = "passed", !.url = url, !.sends = 1]
                  ELSE [NoCall EXCEPT !.stage = "sent", !.url = url, !.sends = 1,
                                      !.token = getToken]]
    /\ UNCHANGED <<tokenSubject, currentUserSubject, serverVars>>

\* the answer to a request that went by the interceptor: to login and to
\* refreshToken, when these are what posted it
passed_response(i, status, token) ==
    /\ http[i].stage = "passed"
    /\ LET after == IF http[i].url = RefreshUrl THEN refreshToken(status, token)
                    ELSE IF status = 200 THEN loginMap(token)
                    ELSE session
       IN  /\ tokenSubject' = after.token
           /\ currentUserSubject' = after.user
    /\ http' = [http EXCEPT ![i].stage = "done", ![i].status = status]
    /\ UNCHANGED serverVars

\* the answer to the request intercept sent: the outer catchError calls
\* refreshToken for a 401 when intercept had a token, and else rethrows
sent_response(i, status) ==
    /\ http[i].stage = "sent"
    /\ http' = [http EXCEPT ![i] =
                  IF status = 401 /\ @.token # Null /\ ~includes(@.url, "/login")
                  THEN [@ EXCEPT !.stage = "refreshing", !.refreshes = @ + 1]
                  ELSE [@ EXCEPT !.stage = "done", !.status = status]]
    /\ UNCHANGED <<tokenSubject, currentUserSubject, serverVars>>

\* the answer to the refresh-token request, which goes by the interceptor:
\* after refreshToken's pipe, switchMap hands the request on again with the
\* token of now, or the inner catchError logs out and rethrows
refresh_response(i, status, token) ==
    /\ http[i].stage = "refreshing"
    /\ LET after == IF status = 200 THEN refreshToken(status, token) ELSE logout
       IN  /\ tokenSubject' = after.token
           /\ currentUserSubject' = after.user
           /\ http' = [http EXCEPT ![i] =
                         IF status = 200
                         THEN [@ EXCEPT !.stage = "retrying", !.sends = @ + 1,
                                        !.token = after.token]
                         ELSE [@ EXCEPT !.stage = "done", !.status = status]]
    /\ UNCHANGED serverVars

\* the answer to the request switchMap handed on: an error reaches the
\* inner catchError, which logs out and rethrows; nothing is sent again
retry_response(i, status) ==
    /\ http[i].stage = "retrying"
    /\ LET after == IF status = 200 THEN session ELSE logout
       IN  /\ tokenSubject' = after.token
           /\ currentUserSubject' = after.user
    /\ http' = [http EXCEPT ![i].stage = "done", ![i].status = status]
    /\ UNCHANGED serverVars

\* the subscriber has the result of the call
complete(i) ==
    /\ http[i].stage = "done"
    /\ http' = [http EXCEPT ![i] = NoCall]
    /\ UNCHANGED <<tokenSubject, currentUserSubject, serverVars>>

\* --------------------------------------------------------- the requests
\* a status a client may send: the five statuses, one that is none, and
\* a body without a status
StatusInputs == validStatuses \cup {"archived", Undefined}

\* the applicationIds arrays a client may send
IdArrays == UNION {[1..n -> AppIds] : n \in 0..MaxBulk}

\* the whole core
Next ==
    \/ Tick
    \/ \E u \in UserIds, body \in CreateBodies : create_find(u, body)
    \/ \E r \in InFlight : create_insert(r)
    \/ \E u \in UserIds, id \in AppIds, st \in StatusInputs : updateStatus_find(u, id, st)
    \/ \E r \in InFlight, fault \in Faults \ {"lookup"} : updateStatus_write(r, fault)
    \/ \E u \in UserIds, ids \in IdArrays, st \in StatusInputs :
          bulkUpdateStatus_update(u, ids, st)
    \/ \E r \in InFlight, fault \in Faults : bulkUpdateStatus_notify(r, fault)
    \/ \E u \in UserIds, id \in AppIds : delete(u, id)
    \/ \E u \in UserIds, id \in AppIds, body \in UpdateBodies : update(u, id, body)
    \/ \E u \in UserIds, id \in AppIds : findByIdWithDetails(u, id)
    \/ \E u \in UserIds, j \in JobIds : getApplications(u, j)
    \/ \E u \in UserIds, j \in JobIds : getByJobOffer(u, j)
    \/ \E u \in UserIds, j \in JobIds : check(u, j)

Spec == Init /\ [][Next]_vars

\* applying and withdrawing, requests overlapping
NextApply ==
    \/ Tick
    \/ \E u \in UserIds, body \in PlainBodies : create_find(u, body)
    \/ \E r \in InFlight : create_insert(r)
    \/ \E u \in UserIds, id \in AppIds : delete(u, id)

SpecApply == Init /\ [][NextApply]_vars

\* applying, withdrawing and reading
NextRead ==
    \/ \E u \in UserIds, body \in PlainBodies : create_find(u, body)
    \/ \E r \in InFlight : create_insert(r)
    \/ \E u \in UserIds, id \in AppIds : delete(u, id)
    \/ \E u \in UserIds, id \in AppIds : findByIdWithDetails(u, id)
    \/ \E u \in UserIds, j \in JobIds : getApplications(u, j)
    \/ \E u \in UserIds, j \in JobIds : getByJobOffer(u, j)

SpecRead == Init /\ [][NextRead]_vars

\* the users requireRole(['job_seeker']) lets through, and those
\* requireRole(['company', 'admin']) does
Seekers == {u \in UserIds : requireRole({"job_seeker"}, auth(u))}
Staff == {u \in UserIds : requireRole({"company", "admin"}, auth(u))}

\* the applications that creates by user 1 for job 1 (of company 1, user
\* 3) and by user 2 for job 2 (of company 2, user 4) have left
Seed(n) ==
    [id \in 1..n |-> [jobOfferId |-> id, userId |-> id, coverLetter |-> Letter,
                      status |-> "pending", updatedAt |-> 0]]

InitSeeded(n) ==
    /\ applications = Seed(n)
    /\ nextId = n + 1
    /\ notifications = << >>
    /\ clock = 0
    /\ req = EmptyBag
    /\ resp = NoResp
    /\ tokenSubject = Null
    /\ currentUserSubject = Null
    /\ http = [i \in Calls |-> NoCall]

\* status changes and withdrawals on one application, requests overlapping
NextStatus ==
    \/ Tick
    \/ \E u \in Staff, id \in AppIds, st \in StatusInputs : updateStatus_find(u, id, st)
    \/ \E r \in InFlight : updateStatus_write(r, "none")
    \/ \E u \in Seekers, id \in AppIds : delete(u, id)

SpecStatus == InitSeeded(1) /\ [][NextStatus]_vars

\* no request is in flight: the bulk requests are taken one at a time
Idle == BagCardinality(req) = 0

\* applying, withdrawing and asking whether one can apply, requests
\* overlapping
NextCheck ==
    \/ \E u \in Seekers, body \in PlainBodies : create_find(u, body)
    \/ \E r \in InFlight : create_insert(r)
    \/ \E u \in Seekers, id \in AppIds : delete(u, id)
    \/ \E u \in UserIds, j \in JobIds : check(u, j)

SpecCheck == Init /\ [][NextCheck]_vars

\* applying with every body, one request at a time
NextPayload ==
    \/ \E u \in UserIds, body \in CreateBodies : Idle /\ create_find(u, body)
    \/ \E r \in InFlight : create_insert(r)
    \/ \E u \in Seekers, id \in AppIds : delete(u, id)

SpecPayload == Init /\ [][NextPayload]_vars

\* status changes and withdrawals on one application, one request at a
\* time
NextStatusSerial ==
    \/ Tick
    \/ \E u \in Staff, id \in AppIds, st \in StatusInputs : Idle /\ updateStatus_find(u, id, st)
    \/ \E r \in InFlight : updateStatus_write(r, "none")
    \/ \E u \in Seekers, id \in AppIds : delete(u, id)

SpecStatusSerial == InitSeeded(1) /\ [][NextStatusSerial]_vars

\* the statuses the bulk requests send: the first one, a final one, and
\* one that is none
BulkStatusInputs == {"pending", "accepted", "archived"}

\* bulk status changes and withdrawals on two applications
NextBulk ==
    \/ \E u \in Staff, ids \in IdArrays, st \in BulkStatusInputs :
          Idle /\ bulkUpdateStatus_update(u, ids, st)
    \/ \E r \in InFlight : bulkUpdateStatus_notify(r, "none")
    \/ \E u \in Seekers, id \in AppIds : delete(u, id)

SpecBulk == InitSeeded(2) /\ [][NextBulk]_vars

\* the status sent to the applications the job seekers work on, and the
\* applicationIds arrays of one id
SeekerStatusInputs == {"reviewed"}
OneIdArrays == [1..1 -> AppIds]

\* what job seekers can do to applications (apply, edit, withdraw, and
\* ask for a status), next to the status changes of the other users; the
\* requests that take two steps are taken one at a time
NextSeeker ==
    \/ \E u \in Seekers, body \in PlainBodies : Idle /\ create_find(u, body)
    \/ \E r \in InFlight : create_insert(r)
    \/ \E u \in Seekers, id \in AppIds, body \in UpdateBodies : update(u, id, body)
    \/ \E u \in Seekers, id \in AppIds : delete(u, id)
    \/ \E u \in UserIds, id \in AppIds, st \in SeekerStatusInputs :
          Idle /\ updateStatus_find(u, id, st)
    \/ \E r \in InFlight : updateStatus_write(r, "none")
    \/ \E u \in Seekers, ids \in OneIdArrays, st \in SeekerStatusInputs :
          bulkUpdateStatus_update(u, ids, st)

SpecSeeker == Init /\ [][NextSeeker]_vars

\* the create bodies for the first job
FirstJobBodies == {body \in CreateBodies : body.jobOfferId = 1}

\* one pair applying and withdrawing again and again: the creates are for
\* the first job and by every user but the second job seeker, so that each
\* row ever inserted is of the pair (job 1, user 1)
NextReapply ==
    \/ Tick
    \/ \E u \in UserIds \ {2}, body \in FirstJobBodies : create_find(u, body)
    \/ \E r \in InFlight : create_insert(r)
    \/ \E u \in Seekers, id \in AppIds : delete(u, id)

SpecReapply == Init /\ [][NextReapply]_vars

\* the statuses sent where the INSERT into notifications can fail
FaultStatusInputs == {"reviewed", "accepted"}

\* status changes, single and bulk, on two applications, with the INSERT
\* into notifications failing at will; one request at a time
NextNotifyFault ==
    \/ \E u \in Staff, id \in AppIds, st \in FaultStatusInputs :
          Idle /\ updateStatus_find(u, id, st)
    \/ \E r \in InFlight, fault \in {"none", "insert"} : updateStatus_write(r, fault)
    \/ \E u \in Staff, ids \in IdArrays, st \in FaultStatusInputs :
          Idle /\ bulkUpdateStatus_update(u, ids, st)
    \/ \E r \in InFlight, fault \in {"none", "insert"} : bulkUpdateStatus_notify(r, fault)

SpecNotifyFault == InitSeeded(2) /\ [][NextNotifyFault]_vars

\* bulk status changes and withdrawals on two applications, with every
\* query of the loop failing at will
NextBulkFault ==
    \/ \E u \in Staff, ids \in IdArrays, st \in BulkStatusInputs \cup {Undefined} :
          Idle /\ bulkUpdateStatus_update(u, ids, st)
    \/ \E r \in InFlight, fault \in Faults : bulkUpdateStatus_notify(r, fault)
    \/ \E u \in Seekers, id \in AppIds : delete(u, id)

SpecBulkFault == InitSeeded(2) /\ [][NextBulkFault]_vars

\* every operation of the core on two applications of which one is there
\* from the start, the requests that take two steps one at a time
NextCore ==
    \/ \E u \in Seekers, body \in PlainBodies : Idle /\ create_find(u, body)
    \/ \E r \in InFlight : create_insert(r)
    \/ \E u \in Seekers, id \in AppIds, body \in UpdateBodies : update(u, id, body)
    \/ \E u \in Seekers, id \in AppIds : delete(u, id)
    \/ \E u \in Seekers, j \in JobIds : check(u, j)
    \/ \E u \in Seekers, id \in AppIds : findByIdWithDetails(u, id)
    \/ \E u \in Staff, j \in JobIds : getByJobOffer(u, j)
    \/ \E u \in Staff, id \in AppIds, st \in SeekerStatusInputs :
          Idle /\ updateStatus_find(u, id, st)
    \/ \E r \in InFlight : updateStatus_write(r, "none")
    \/ \E u \in Staff, ids \in OneIdArrays, st \in SeekerStatusInputs :
          Idle /\ bulkUpdateStatus_update(u, ids, st)
    \/ \E r \in InFlight : bulkUpdateStatus_notify(r, "none")

SpecCore == InitSeeded(1) /\ [][NextCore]_vars

\* the first segments of the PUT requests on .../status
StatusSegments == {"1", "2", "bulk"}

\* the bodies of those requests
StatusBodies == [status : {"accepted", "archived"}, applicationIds : IdArrays]

\* the status requests as the router receives them, one at a time, with
\* deletions between them
NextRoute ==
    \/ \E u \in Staff, segment \in StatusSegments, body \in StatusBodies :
          Idle /\ put_status(u, segment, body)
    \/ \E r \in InFlight : updateStatus_write(r, "none")
    \/ \E u \in Seekers, id \in AppIds : delete(u, id)

SpecRoute == InitSeeded(2) /\ [][NextRoute]_vars

\* the companyId values a request carries
CompanyQueryIds == CompanyIds \cup {NoCompany}

\* the lists and figures of the companies, while applications come and go
NextCompany ==
    \/ \E u \in Seekers, body \in PlainBodies : Idle /\ create_find(u, body)
    \/ \E r \in InFlight : create_insert(r)
    \/ \E u \in Seekers, id \in AppIds : delete(u, id)
    \/ \E u \in UserIds, c \in CompanyQueryIds : findAll(u, c)
    \/ \E u \in UserIds, c \in CompanyQueryIds : getByCompany(u, c)
    \/ \E u \in UserIds, c \in CompanyQueryIds : getStatistics(u, c)
    \/ \E u \in UserIds, c \in CompanyQueryIds : getRecent(u, c)
    \/ \E u \in UserIds, c \in CompanyQueryIds : getTrends(u, c)

SpecCompany == Init /\ [][NextCompany]_vars

\* the token of a response body, null when it has none
BodyTokens == Tokens \cup {Null}

\* the calls of the web client, overlapping, the server answering each
\* request as it likes
NextClient ==
    \/ \E i \in Calls, url \in Urls : intercept(i, url)
    \/ \E i \in Calls, status \in Statuses, token \in BodyTokens :
          passed_response(i, status, token)
    \/ \E i \in Calls, status \in Statuses : sent_response(i, status)
    \/ \E i \in Calls, status \in Statuses, token \in BodyTokens :
          refresh_response(i, status, token)
    \/ \E i \in Calls, status \in Statuses : retry_response(i, status)
    \/ \E i \in Calls : complete(i)

SpecClient == Init /\ [][NextClient]_vars

\* ------------------------------------------------------------ the claims
\* the user who owns the company that owns the job:
\* job_offers.company_id -> companies.user_id
OwnerOfJob(jobOfferId) == companies[job_offers[jobOfferId].companyId].userId

\* the statuses no transition leaves, and those a transition into notifies
Terminal == {"accepted", "rejected"}
Notifying == {"reviewed", "interview", "accepted", "rejected"}

\* the rows of the pair (job, applicant)
RowsOf(jobOfferId, userId, table) ==
    {id \in DOMAIN table : table[id].jobOfferId = jobOfferId /\ table[id].userId = userId}

\* this step answers a request of the kind op
Answers(op) == resp'.op = op /\ resp' # NoResp

\* C1: in every state there is at most one application per (job,
\* applicant) pair, however the existence checks and the inserts of
\* overlapping creates interleave; a create is answered with success exactly
\* when no row of its pair exists at that moment, and its success adds the
\* one row of the pair, so of N overlapping creates for a pair one succeeds
\* and the others are rejected.
C1_OnePerPair ==
    /\ [](\A a, b \in DOMAIN applications :
            (/\ applications[a].jobOfferId = applications[b].jobOfferId
             /\ applications[a].userId = applications[b].userId) => a = b)
    /\ [][(Answers("create") /\ resp'.code # 403) =>
            /\ resp'.code \in {201, 400}
            /\ resp'.code = 201 <=> RowsOf(resp'.job, resp'.actor, applications) = {}
            /\ Cardinality(RowsOf(resp'.job, resp'.actor, applications')) = 1]_vars

\* a create that lost the race has been rejected, and its pair has one row
C1_Witness ==
    /\ resp.op = "create"
    /\ resp.code = 400
    /\ resp.message = ErrCreating
    /\ Cardinality(RowsOf(resp.job, resp.actor, applications)) = 1

\* C2: once an application is accepted or rejected its status and
\* updatedAt never change again, and a status change asked for it is not
\* answered with success.
C2_TerminalIsFinal ==
    [][\A id \in DOMAIN applications :
          applications[id].status \in Terminal =>
            /\ id \in DOMAIN applications' => applications'[id] = applications[id]
            /\ (Answers("status") /\ resp'.app.id = id) => resp'.code >= 400]_vars

\* C3: a status change asked by a company user who does not own the
\* company of the application's job is answered 403, writes no row and
\* inserts no notification.
C3_NonOwnerDenied ==
    (/\ resp.op = "status"
     /\ user_type(resp.actor) = "company"
     /\ resp.app.jobOfferId \in JobIds
     /\ OwnerOfJob(resp.app.jobOfferId) # resp.actor)
    => (resp.code = 403 /\ resp.wrote = {} /\ resp.sent = << >>)

\* the message kind of each status, as the specification lists them
KindOf(status) ==
    CASE status = "reviewed" -> "Your application has been reviewed"
      [] status = "interview" -> "You have been invited for an interview"
      [] status = "accepted" -> "Congratulations! Your application has been accepted"
      [] status = "rejected" -> "Your application has been rejected"

\* C4: a status change into reviewed, interview, accepted or rejected that
\* is answered with success has added exactly one row to notifications, for
\* the applicant of the application and with the message of the new status.
C4_OneNotification ==
    [][(Answers("status") /\ resp'.code = 200 /\ resp'.status \in Notifying) =>
          /\ Len(notifications') = Len(notifications) + 1
          /\ SubSeq(notifications', 1, Len(notifications)) = notifications
          /\ notifications'[Len(notifications')].user_id = resp'.app.userId
          /\ notifications'[Len(notifications')].message = KindOf(resp'.status)]_vars

\* a company user has moved the application of user 1, and the one
\* notification of it is for user 1
C4_Witness ==
    /\ resp.op = "status"
    /\ resp.code = 200
    /\ resp.status = "interview"
    /\ user_type(resp.actor) = "company"
    /\ Len(notifications) = 1
    /\ notifications[1].user_id = 1
    /\ notifications[1].message = MsgInterview

\* the ids a response body lists under a name
Listed(body, name) == IF name \in DOMAIN body THEN body[name] ELSE {}

\* C5: the answer to a bulk status change lists every id of the request
\* once, as succeeded or as failed.
C5_EveryIdReported ==
    (resp.op = "bulk" /\ Len(resp.ids) > 0 /\ resp.status \in validStatuses /\ resp.code # 403)
    => /\ Listed(Body(resp), "succeeded") \cup Listed(Body(resp), "failed") = Range(resp.ids)
       /\ Listed(Body(resp), "succeeded") \cap Listed(Body(resp), "failed") = {}

\* a bulk request starts in this step
BulkStarts(r) == r.op = "bulk" /\ r \in BagToSet(req') /\ r.idx = 1 /\ r \notin BagToSet(req)

\* C6: a bulk status change by a company user leaves the applications
\* under other companies' jobs as they are and inserts no notification for
\* them.
C6_BulkOnlyOwn ==
    [][\A r \in BagToSet(req') \cup BagToSet(req) :
          (r.op = "bulk" /\ user_type(r.actor) = "company") =>
            /\ BulkStarts(r) =>
                 \A id \in DOMAIN applications :
                    OwnerOfJob(applications[id].jobOfferId) # r.actor =>
                       applications'[id] = applications[id]
            /\ (r \in BagToSet(req) /\ r.ids[r.idx] \in DOMAIN applications
                /\ OwnerOfJob(applications[r.ids[r.idx]].jobOfferId) # r.actor) =>
                 notifications' = notifications]_vars

\* an id of a bulk request by actor that fails: no row, not the actor's to
\* change, or final
ItemFails(actor, id) ==
    \/ id \notin DOMAIN applications
    \/ user_type(actor) = "company" /\ OwnerOfJob(applications[id].jobOfferId) # actor
    \/ applications[id].status \in Terminal

\* C7: in a bulk status change with an id that fails, every other id of
\* the request that has a row, is the actor's to change and is not final
\* gets the requested status, and the request is answered with success.
C7_OthersStillUpdated ==
    /\ [][\A r \in BagToSet(req') :
            (BulkStarts(r) /\ \E id \in Range(r.ids) : ItemFails(r.actor, id)) =>
               \A id \in Range(r.ids) :
                  ~ItemFails(r.actor, id) =>
                     (id \in DOMAIN applications' /\ applications'[id].status = r.status)]_vars
    /\ [](resp.op = "bulk" /\ Len(resp.ids) > 0 /\ resp.status \in validStatuses
            => resp.code = 200)

\* a bulk request naming a withdrawn application and a pending one has
\* been answered, and the pending one is accepted
C7_Witness ==
    /\ resp.op = "bulk"
    /\ resp.code = 200
    /\ resp.status = "accepted"
    /\ \E i, j \in Range(resp.ids) :
          /\ i \notin DOMAIN applications
          /\ i \notin resp.wrote
          /\ j \in resp.wrote
          /\ j \in DOMAIN applications
          /\ applications[j].status = "accepted"

\* C8: a create rejected because its pair has a row is answered as the
\* second of two creates in a row is: 400, already applied.
C8_RaceLoserAlreadyApplied ==
    (resp.op = "create" /\ resp.code \notin {201, 403})
    => (resp.code = 400 /\ resp.message = ErrAlreadyApplied)

\* C9: a job seeker who reads an application of another user is answered
\* 403 and gets no application.
C9_ReadOnlyOwn ==
    (/\ resp.op = "read"
     /\ user_type(resp.actor) = "job_seeker"
     /\ resp.app.userId \in UserIds
     /\ resp.app.userId # resp.actor)
    => (resp.code = 403 /\ resp.data = {})

\* C10: a company user who lists the applications of a job of another
\* company is answered 403, on both routes that list them.
C10_ListOnlyOwnJob ==
    (/\ resp.op \in {"getApplications", "getByJobOffer"}
     /\ user_type(resp.actor) = "company"
     /\ resp.job \in JobIds
     /\ OwnerOfJob(resp.job) # resp.actor)
    => resp.code = 403
\* C11: an application leaves the table only in a delete by the job seeker
\* who is its applicant; a delete asked by another job seeker is answered
\* 403 and leaves the table as it is.
C11_DeleteOnlyOwn ==
    [][/\ \A id \in DOMAIN applications \ DOMAIN applications' :
            /\ Answers("delete")
            /\ resp'.code = 200
            /\ resp'.app.id = id
            /\ user_type(resp'.actor) = "job_seeker"
            /\ applications[id].userId = resp'.actor
       /\ (/\ Answers("delete")
           /\ user_type(resp'.actor) = "job_seeker"
           /\ resp'.app.userId \in UserIds
           /\ resp'.app.userId # resp'.actor)
          => (resp'.code = 403 /\ applications' = applications)]_vars

\* a job seeker has asked to delete the application of another one, was
\* answered 403, and the application is still there
C11_Witness ==
    /\ resp.op = "delete"
    /\ resp.code = 403
    /\ resp.message = ErrDenied
    /\ resp.app.id \in DOMAIN applications
    /\ applications[resp.app.id].userId # resp.actor

\* the users whose request this step serves: the one answered, or the one
\* whose handler goes on
StepActors ==
    IF resp' # NoResp
    THEN {resp'.actor}
    ELSE {r.actor : r \in {x \in BagToSet(req') : CopiesIn(x, req') > CopiesIn(x, req)}}

\* C12: no step that serves a job seeker (a create, an update of the
\* content, a delete, an attempt at a status change) changes the status of
\* an application: a status changes only in a step that serves a company
\* user or an admin.
C12_SeekerNeverChangesStatus ==
    [][\A id \in DOMAIN applications \cap DOMAIN applications' :
          applications'[id].status # applications[id].status =>
             /\ StepActors # {}
             /\ \A a \in StepActors : user_type(a) \in {"company", "admin"}]_vars

\* a job seeker has asked for a status change and was answered 403, with
\* an application that has been reviewed and then edited by its applicant
C12_Witness ==
    /\ resp.op = "status"
    /\ user_type(resp.actor) = "job_seeker"
    /\ resp.code = 403
    /\ \E id \in DOMAIN applications :
          /\ applications[id].status = "reviewed"
          /\ applications[id].coverLetter = Edited

\* C13: every row that enters the table does so in a create answered 201,
\* with the user id of the authenticated caller and the status pending,
\* whatever userId and status the body of the request carries.
C13_CreatedOwnPending ==
    [][\A id \in DOMAIN applications' \ DOMAIN applications :
          /\ Answers("create")
          /\ resp'.code = 201
          /\ resp'.app.id = id
          /\ applications'[id].userId = resp'.actor
          /\ applications'[id].status = "pending"]_vars

\* a create by user 2 has been answered 201 and its row is user 2's and
\* pending
C13_Witness ==
    /\ resp.op = "create"
    /\ resp.code = 201
    /\ resp.actor = 2
    /\ resp.app.id \in DOMAIN applications
    /\ applications[resp.app.id].userId = 2
    /\ applications[resp.app.id].status = "pending"
\* C14: over the whole history at most one application is created per
\* pair.  Where every row ever inserted is of the one pair (job 1, user 1),
\* a create is answered 201 only while AUTO_INCREMENT is still at 1, also
\* after the application of the pair has been deleted.
C14_NoReapplyAfterDelete ==
    [][(Answers("create") /\ resp'.code = 201) => nextId = 1]_vars
\* C15: no step sets the status of an application to pending: an
\* application that has left pending never is pending again.
C15_NeverBackToPending ==
    [][\A id \in DOMAIN applications \cap DOMAIN applications' :
          applications[id].status # "pending" => applications'[id].status # "pending"]_vars

\* this step is the write of a status change: one of the handlers that
\* passed the lookup ends and answers
StatusWrite ==
    /\ Answers("status")
    /\ BagCardinality(req') < BagCardinality(req)

\* the five statuses of an application
FiveStatuses == {"pending", "reviewed", "interview", "accepted", "rejected"}

\* C16: a status change for an application that exists, with a status that
\* is none of the five (or with none at all), is answered 400 as an invalid
\* status and leaves applications and notifications as they are.
C16_InvalidStatusRejected ==
    [][(Answers("status") /\ resp'.status \in StatusInputs \ FiveStatuses) =>
          /\ resp'.code = 400
          /\ resp'.message \in {ErrInvalidStatus, ErrStatusRequired}
          /\ applications' = applications
          /\ notifications' = notifications]_vars

\* an application that has been reviewed was asked to become archived,
\* and the request was answered 400
C16_Witness ==
    /\ resp.op = "status"
    /\ resp.status = "archived"
    /\ resp.code = 400
    /\ resp.message = ErrInvalidStatus
    /\ resp.app.id \in DOMAIN applications
    /\ applications[resp.app.id].status = "reviewed"

\* this step is a turn of the loop of the bulk request r
BulkTurn(r) == r.op = "bulk" /\ r \in BagToSet(req) /\ CopiesIn(r, req') < CopiesIn(r, req)

\* C17: when the INSERT of the notification fails in a status change, the
\* status stays written and the caller is answered with success, in a
\* single change and for each application of a bulk change.
C17_NotificationFailureSwallowed ==
    /\ [][(StatusWrite /\ resp'.status \in Notifying /\ notifications' = notifications) =>
             /\ resp'.code = 200
             /\ \A id \in resp'.wrote : applications'[id].status = resp'.status]_vars
    /\ [][\A r \in BagToSet(req) :
             (/\ BulkTurn(r)
              /\ r.status \in Notifying
              /\ r.ids[r.idx] \in DOMAIN applications
              /\ notifications' = notifications) =>
                /\ applications' = applications
                /\ resp' # NoResp => resp'.code = 200
                /\ resp' = NoResp => r.idx < Len(r.ids)]_vars

\* a bulk change of two applications to accepted has been answered with
\* success, both are accepted, and only one of the two notifications got
\* into the table
C17_Witness ==
    /\ resp.op = "bulk"
    /\ resp.code = 200
    /\ resp.status = "accepted"
    /\ resp.wrote = {1, 2}
    /\ Len(resp.sent) = 1
    /\ \A id \in resp.wrote : applications[id].status = "accepted"

\* C18: each status change that has passed its lookup succeeds, and the
\* status of an application is always the one of the write that came last:
\* of two overlapping changes both are answered 200, the later write wins,
\* and a status changes only to the one a write asked for.
C18_LastWriteWins ==
    [][/\ StatusWrite =>
            /\ resp'.code = 200
            /\ \A id \in resp'.wrote : applications'[id].status = resp'.status
       /\ \A id \in DOMAIN applications \cap DOMAIN applications' :
            applications'[id].status # applications[id].status =>
               (StatusWrite /\ resp'.app.id = id /\ applications'[id].status = resp'.status)]_vars

\* two users have asked for two statuses of the same application, both
\* have passed the lookup, the first has written and was answered 200, the
\* second is still to write
C18_Witness ==
    /\ resp.op = "status"
    /\ resp.code = 200
    /\ resp.app.id \in DOMAIN applications
    /\ applications[resp.app.id].status = resp.status
    /\ \E r \in InFlight :
          /\ r.op = "status"
          /\ r.app.id = resp.app.id
          /\ r.actor # resp.actor
          /\ r.status # resp.status

\* C19: a bulk status change by a company user or an admin is answered
\* with an error only when the list of ids is empty or the status is none
\* of the five.
C19_BulkRejectedOnlyOnContract ==
    (resp.op = "bulk" /\ resp.code # 403)
    => (resp.code >= 400 <=> (Len(resp.ids) = 0 \/ resp.status \notin FiveStatuses))

\* C20: when a bulk change that was answered with success, with some ids
\* written and some not, is sent again as it was, the second run leaves
\* every status as it is, and for a final status it does not write the
\* rows the first run wrote: those it is to report as failed.
C20_BulkRerun ==
    [][\A r \in BagToSet(req') :
          (/\ BulkStarts(r)
           /\ resp.op = "bulk"
           /\ resp.code = 200
           /\ r.ids = resp.ids
           /\ r.status = resp.status
           /\ r.actor = resp.actor
           /\ resp.wrote # {}
           /\ Range(resp.ids) \ resp.wrote # {}) =>
              /\ \A id \in DOMAIN applications :
                    applications'[id].status = applications[id].status
              /\ r.status \in Terminal => r.wrote \cap resp.wrote = {}]_vars
\* the statuses a transition leaves
NonTerminal == {"pending", "reviewed", "interview"}

\* C21: a status change to reviewed, interview, accepted or rejected,
\* asked by the owner of the company of the job for an application that is
\* pending, reviewed or in interview, is answered 200 and writes the
\* status, whatever the order of the two statuses.
C21_NonTerminalMovesFreely ==
    [][(/\ Answers("status")
        /\ resp'.status \in Notifying
        /\ resp'.app.id \in DOMAIN applications
        /\ resp'.actor = OwnerOfJob(applications[resp'.app.id].jobOfferId)
        /\ applications[resp'.app.id].status \in NonTerminal) =>
           /\ resp'.code = 200
           /\ applications'[resp'.app.id].status = resp'.status]_vars

\* the owner has moved the application to interview and then back to
\* reviewed: the applicant has the two notifications, in that order
C21_Witness ==
    /\ resp.op = "status"
    /\ resp.code = 200
    /\ resp.status = "reviewed"
    /\ resp.actor = OwnerOfJob(resp.app.jobOfferId)
    /\ resp.app.id \in DOMAIN applications
    /\ applications[resp.app.id].status = "reviewed"
    /\ Len(notifications) = 2
    /\ notifications[1].message = MsgInterview
    /\ notifications[2].message = MsgReviewed
\* C22: an admin is allowed every action: no request of an admin is
\* answered 403.
C22_AdminAllowedEverywhere ==
    (resp # NoResp /\ user_type(resp.actor) = "admin") => resp.code # 403
\* C23: the answer to the question whether a user can apply for a job
\* says yes exactly when the table has no row of the pair, that is exactly
\* when the existence check and the unique key of a create would both let
\* the pair in, and the step changes no table.
C23_CanApplyIsExistenceCheck ==
    [][(Answers("check") /\ resp'.code = 200) =>
          /\ (TRUE \in resp'.data) <=> (RowsOf(resp'.job, resp'.actor, applications) = {})
          /\ (TRUE \in resp'.data) <=>
                (/\ findByJobAndUser(resp'.job, resp'.actor) = {}
                 /\ ~unique_application(resp'.job, resp'.actor))
          /\ UNCHANGED <<applications, nextId, notifications>>]_vars

\* user 1, who has applied for job 2 only, is told not to apply again
C23_Witness ==
    /\ resp.op = "check"
    /\ resp.code = 200
    /\ resp.actor = 1
    /\ resp.job = 2
    /\ resp.data = {FALSE}
    /\ RowsOf(2, 1, applications) # {}
    /\ RowsOf(1, 1, applications) = {}
\* C24: a row enters notifications only in the write of a status change
\* answered 200 or in a turn of the loop of a bulk status change, one row
\* at a time; a create, an update of the content, a delete, a check and a
\* read add none.
C24_OnlyStatusChangesNotify ==
    [][notifications' # notifications =>
          /\ Len(notifications') = Len(notifications) + 1
          /\ SubSeq(notifications', 1, Len(notifications)) = notifications
          /\ \/ StatusWrite /\ resp'.code = 200
             \/ \E r \in BagToSet(req) : BulkTurn(r)]_vars

\* a create has been answered 201 after a status change had notified, and
\* the one notification in the table is still that of the status change
C24_Witness ==
    /\ resp.op = "create"
    /\ resp.code = 201
    /\ Len(notifications) = 1
    /\ notifications[1].title = Title

\* C25: a PUT on /bulk/status by a company or admin user with a non-empty
\* applicationIds list and a valid status reaches the bulk handler and
\* gives the listed applications that status; the route /:id/status does
\* not take it
C25_BulkPathReachesBulk ==
    [][\A u \in Staff, body \in StatusBodies :
          (/\ Len(body.applicationIds) > 0
           /\ body.status \in FiveStatuses
           /\ put_status(u, "bulk", body))
          => /\ \E r \in BagToSet(req') : BulkStarts(r) /\ r.ids = body.applicationIds
             /\ \A id \in Range(body.applicationIds) \cap DOMAIN applications :
                   applications'[id].status = body.status]_vars

\* the users of type company, and the company each of them represents
Reps == {u \in UserIds : user_type(u) = "company"}
CompanyOfUser(u) == CHOOSE c \in CompanyIds : companies[c].userId = u

\* C26: the list, by-company, statistics, recent and trends operations
\* called by a company user answer with the data of that user's own company,
\* whatever companyId the request carries
C26_CompanyFromSubject ==
    [][\A u \in Reps, c \in CompanyQueryIds :
          LET own == OfCompany(CompanyOfUser(u))
          IN  /\ findAll(u, c) => resp'.data = own
              /\ getByCompany(u, c) => resp'.data = own
              /\ getStatistics(u, c) => resp'.data = {Cardinality(own)}
              /\ getRecent(u, c) => resp'.data = own
              /\ getTrends(u, c) => resp'.data = {Cardinality(own)}]_vars

\* C27: a bulk status change to a status with a message has created, when it
\* is answered, no more notifications than the distinct applications its
\* UPDATE matched, also when an id is listed twice
C27_OneNoticePerDistinctId ==
    (resp.op = "bulk" /\ resp.code = 200 /\ resp.status \in Notifying)
       => Len(resp.sent) <= Cardinality(resp.wrote)

\* C28: a single status change that overlaps a withdrawal is answered with
\* success, or has created a notification, only if its UPDATE matched a row:
\* after a withdrawal between the lookup and the write it does neither
C28_SuccessOnlyIfWritten ==
    (resp.op = "status" /\ (resp.code = 200 \/ resp.sent # << >>)) => resp.wrote # {}

\* C29: a bulk status change that is answered with an error has changed the
\* status of no application, also when the lookup that follows the UPDATE
\* is what failed
C29_BulkErrorChangesNothing ==
    (resp.op = "bulk" /\ resp.code >= 400) => resp.wrote = {}

\* the refresh of call i fails in this step
RefreshFails(i) == http[i].stage = "refreshing" /\ http'[i].stage = "done"

\* C30: a call answered 401 while a token is held leads to at most one
\* refreshToken and to the request being handed on at most once more; a
\* login or refresh-token request is handed on once and never refreshed
\* for; and when the refresh fails, the current user and the token are
\* both null after it
C30_OneRefreshOneRetry ==
    /\ [](\A i \in Calls :
            /\ http[i].refreshes <= 1
            /\ http[i].sends <= 1 + http[i].refreshes
            /\ http[i].refreshes = 1 => http[i].url = ApplicationsUrl
            /\ http[i].url \in {LoginUrl, RefreshUrl} => http[i].sends <= 1)
    /\ [][\A i \in Calls :
            RefreshFails(i) => tokenSubject' = Null /\ currentUserSubject' = Null]_vars

\* a call that held a token was answered 401, its refresh failed, and the
\* session is cleared
C30_Witness ==
    \E i \in Calls :
       /\ http[i].stage = "done"
       /\ http[i].refreshes = 1
       /\ http[i].sends = 1
       /\ http[i].token # Null
       /\ http[i].status = 401
       /\ tokenSubject = Null
       /\ currentUserSubject = Null

====
